---- MODULE Spec2Model ----
(***************************************************************************)
(* A model of the uroboros cycle orchestrator (OuroborosEngine.run_cycle)  *)
(* and of the sandbox arbiter (E2BArbiter.execute) it awaits (Spec), and   *)
(* of the prompt ledger (PromptOptimizer) on its own (LedgerSpec).         *)
(*                                                                         *)
(* Text is modelled as a sequence of tokens; the empty string is <<>>.     *)
(* Every await of run_cycle and of execute is one step of the model: the   *)
(* awaited collaborator either returns a value or raises.                  *)
(***************************************************************************)
EXTENDS Integers, Sequences, FiniteSets, TLC

VARIABLES
    pc,                 \* position of run_cycle
    task,               \* the Task run_cycle currently holds (id, description)
    attempts,           \* main.py:56
    success,            \* main.py:55
    previous_feedback,  \* main.py:57
    solution,           \* the Solution of the current attempt
    adversarial_tests,  \* the Adversary's test files of the current attempt
    source_files,       \* main.py:79
    clean_test_files,   \* main.py:89
    result,             \* the TestResult of the current attempt
    new_skill,          \* main.py:113
    verdict,            \* the terminal log line of run_cycle: SUCCESS / FAILED
    raised,             \* the exception that left run_cycle, if any
    collection,         \* the vector store's collection: id -> entry
    history,            \* the prompt ledger (list of PromptVersion)
    xpc,                \* position of E2BArbiter.execute
    sandbox,            \* the sandbox variable of execute
    widx,               \* index of the next file execute writes
    xresult,            \* the result variable of execute
    sandbox_fs,         \* paths written into the sandbox execute holds
    leases,             \* number of sandboxes the vendor has leased so far
    xerror,             \* the exception raised inside execute, and where
    xcalls,             \* the vendor calls execute has made, in order
    current_version_id, \* optimizer.py:38
    ledger_file,        \* the prompt ledger file on disk
    last_op,            \* the ledger operation called last
    step_ret,           \* what the last step() returned
    gateway_failed,     \* whether the Gateway call of the last step() raised
    loaded_from,        \* the ledger file as the last load found it
    mem_call,           \* the last call of the skill memory, with its result
    system_prompt,       \* the system prompt the last actor.solve call built
    lpc,                \* position of main in the while loop of loop mode
    sleeping,           \* the seconds of the asyncio.sleep in progress, or 0
    in_flight,          \* the run_cycle calls of the loop not yet ended
    loop_log,           \* how each cycle of the loop ended, in order
    ppc,                \* position of Patcher.apply_to_file
    original_file,      \* the file at original_path
    backup_file,        \* the file at backup_path
    patch_diff,         \* patch.diff of the apply_to_file call
    patch_before,       \* the file at original_path when the call began
    patch_log,          \* the file system calls of apply_to_file, in order
    patch_ret,          \* what apply_to_file returned, or the exception
    \* history of the cycle, for stating properties
    origTask,           \* the task as generated in phase 1
    solveArgs,          \* the descriptions passed to actor.solve, in order
    statuses,           \* TestResult.status of each verified attempt, in order
    stored,             \* the skills passed to memory.store_skill, in order
    recordRuns,         \* the flags passed to PromptOptimizer.record_run
    runOutcome          \* what the vendor did with the test command

vars == <<pc, task, attempts, success, previous_feedback, solution,
          adversarial_tests, source_files, clean_test_files, result, new_skill,
          verdict, raised, collection, history, xpc, sandbox, widx, xresult,
          sandbox_fs, leases, xerror, xcalls, current_version_id, ledger_file,
          last_op, step_ret, gateway_failed, loaded_from, mem_call, system_prompt,
          lpc, sleeping, in_flight, loop_log, ppc, original_file, backup_file,
          patch_diff, patch_before, patch_log, patch_ret,
          origTask, solveArgs, statuses, stored, recordRuns,
          runOutcome>>

ledgerVars == <<current_version_id, ledger_file, last_op, step_ret,
                gateway_failed, loaded_from>>

loopVars == <<lpc, sleeping, in_flight, loop_log>>

patcherVars == <<ppc, original_file, backup_file, patch_diff, patch_before,
                 patch_log, patch_ret>>

\* what run_cycle has no hand in
sideVars == <<loopVars, patcherVars>>

\* what no action of run_cycle but the return of actor.solve changes
memVars == <<mem_call, system_prompt, sideVars>>

cycleVars == <<pc, task, attempts, success, previous_feedback, solution,
               adversarial_tests, source_files, clean_test_files, result,
               new_skill, verdict, raised, collection, history,
               origTask, solveArgs, statuses, stored, recordRuns, ledgerVars, memVars>>

(***************************************************************************)
(* Bounds and program constants                                            *)
(***************************************************************************)
max_retries == 3

IdPrefixLen == 8

MaxPatches == 2

MaxIdLen == 9

MaxRuns == 6

MaxVersions == 2

MaxLimit == 3

MaxSelect == 2

SolveSkillLimit == 3

MaxCycles == 3

MaxKiB == 16

\* asyncio.sleep(5) after a cycle, asyncio.sleep(10) after an error
CycleDelay == 5

ErrorDelay == 10

\* a local variable that is not bound yet
Unbound == [unbound |-> TRUE]

(***************************************************************************)
(* Text helpers                                                            *)
(***************************************************************************)
\* a Markdown code fence (three backticks)
FENCE == "FENCE"

LF == "LF"

SP == " "

Contains(s, tok) == \E i \in 1..Len(s) : s[i] = tok

IsWs(t) == t \in {SP, LF}

IsWord(t) == t \notin {FENCE, SP, LF}

SetMin(S) == CHOOSE x \in S : \A y \in S : x <= y

SetMax(S) == CHOOSE x \in S : \A y \in S : y <= x

\* str.strip()
Strip(s) ==
    LET idx == {i \in 1..Len(s) : ~IsWs(s[i])}
    IN  IF idx = {} THEN <<>> ELSE SubSeq(s, SetMin(idx), SetMax(idx))

\* s[:n]
PyPrefix(s, n) == SubSeq(s, 1, IF Len(s) < n THEN Len(s) ELSE n)

\* where the fenced body starts when the opening (fence, optional word,
\* newline) matches at i, else 0
BodyStart(s, i) ==
    IF s[i] # FENCE THEN 0
    ELSE IF i + 2 <= Len(s) /\ IsWord(s[i+1]) /\ s[i+2] = LF THEN i + 3
    ELSE IF i + 1 <= Len(s) /\ s[i+1] = LF THEN i + 2
    ELSE 0

\* position of the first fence at or after from, else 0
NextFence(s, from) ==
    LET ks == {k \in from..Len(s) : s[k] = FENCE}
    IN  IF ks = {} THEN 0 ELSE SetMin(ks)

RECURSIVE FindAll(_, _)
\* re.findall(pattern, text, re.DOTALL) scanning from i: leftmost, lazy,
\* non-overlapping fenced bodies
FindAll(s, i) ==
    IF i > Len(s) THEN <<>>
    ELSE LET b == BodyStart(s, i)
             k == IF b = 0 THEN 0 ELSE NextFence(s, b)
         IN  IF b # 0 /\ k # 0
             THEN <<SubSeq(s, b, k - 1)>> \o FindAll(s, k + 1)
             ELSE FindAll(s, i + 1)

\* max(matches, key=len): the first of the longest
MaxByLen(matches) ==
    LET best == SetMax({Len(matches[i]) : i \in 1..Len(matches)})
        first == SetMin({i \in 1..Len(matches) : Len(matches[i]) = best})
    IN  matches[first]

clean_code_block(text) ==
    LET matches == FindAll(text, 1)
    IN  IF matches # <<>> THEN Strip(MaxByLen(matches)) ELSE Strip(text)

(***************************************************************************)
(* Values the collaborators can hand back                                  *)
(***************************************************************************)
\* Task.id: a uuid4 string for a user task, any string the model emits for a
\* curriculum task; ids of IdPrefixLen-1 .. MaxIdLen characters
TaskIds == {[i \in 1..n |-> ToString(i)] : n \in (IdPrefixLen - 1)..MaxIdLen}

UuidIds == {id \in TaskIds : Len(id) > IdPrefixLen}

FEEDBACK_MARKER == "PREVIOUS FAILURE FEEDBACK:"

Descriptions == {<<"write add(a,b)">>, <<"explain", FEEDBACK_MARKER>>}

\* the patches the model can emit: a fenced source file with two fenced
\* blocks, and a plain requirements file
Patches == {
    [file_path |-> "lib.py",
     diff |-> <<"t", FENCE, LF, "a", FENCE, SP, FENCE, "py", LF, "b", "c",
                FENCE, LF>>],
    [file_path |-> "requirements.txt", diff |-> <<"pytest", LF>>] }

\* the sequences of at most n elements of S, none of them twice
SeqsUpTo(S, n) ==
    UNION {{f \in [1..k -> S] : \A i, j \in 1..k : f[i] = f[j] => i = j} :
                k \in 0..n}

\* the patches lists the model can return in a Solution
PatchLists == SeqsUpTo(Patches, MaxPatches)

TestPaths == {"tests/test_lib.py"}

\* the test files the Adversary can return
TestFileLists == {
    <<>>,
    <<[file_path |-> "tests/test_lib.py",
       content |-> <<FENCE, LF, "assert", FENCE>>]>> }

\* what sandbox.commands.run returns: the vendor returns normally on exit 0
\* and raises CommandExitException on any other exit code
ProcOutputs == {[stdout |-> <<"1 passed">>, stderr |-> <<>>, exit_code |-> 0]}

CommandExits ==
    {[type |-> "CommandExitException", exit_code |-> c,
      stdout |-> <<"1 failed">>, stderr |-> <<"AssertionError">>,
      msg |-> <<"exit">>] : c \in {1, 5}}

\* the builtin TimeoutError and the vendor's own timeout exception
Timeouts == {[type |-> "TimeoutError", msg |-> <<>>],
             [type |-> "TimeoutException", msg |-> <<>>]}

Transport == {[type |-> "SandboxException", msg |-> <<"connection reset">>]}

InfraExceptions == Timeouts \cup Transport

CommandExceptions == CommandExits \cup InfraExceptions

\* getattr(obj, name, default)
GetAttr(obj, name, default) ==
    IF name \in DOMAIN obj THEN obj[name] ELSE default

NoRaise == [type |-> "none", at |-> "none"]

(***************************************************************************)
(* Prompt ledger                                                           *)
(***************************************************************************)
\* a float that is the quotient of two small integers, kept as the reduced
\* fraction so that equal floats are equal values
RECURSIVE GCD(_, _)
GCD(a, b) == IF b = 0 THEN a ELSE GCD(b, a % b)

\* integer division in place of the true division
QuotientFloor(a, b) == [num |-> a \div b, den |-> 1]

\* successes / runs
Quotient(a, b) == [num |-> a \div GCD(a, b), den |-> b \div GCD(a, b)]

ZeroRate == [num |-> 0, den |-> 1]

RateLess(a, b) == a.num * b.den < b.num * a.den

\* PromptOptimizer.__init__: the thresholds of evolution
evolution_threshold_runs == 5

evolution_threshold_rate == Quotient(6, 10)

\* _get_default_prompt
DefaultPrompt == <<"You are Uroboros">>

\* a PromptVersion that is born with the runs of the threshold
PromptVersionWithRuns(version_id, content, parent_version, change_summary) ==
    [version_id |-> version_id,
     content |-> content,
     parent_version |-> parent_version,
     change_summary |-> change_summary,
     runs |-> evolution_threshold_runs,
     successes |-> 0,
     avg_success_rate |-> ZeroRate]

\* the fields of PromptVersion but created_at
PromptVersion(version_id, content, parent_version, change_summary) ==
    [version_id |-> version_id,
     content |-> content,
     parent_version |-> parent_version,
     change_summary |-> change_summary,
     runs |-> 0,
     successes |-> 0,
     avg_success_rate |-> ZeroRate]

\* PromptOptimizer._initialize_history: the genesis version
Genesis == PromptVersion(0, DefaultPrompt, "None", <<"Initial Version">>)

\* self.history[-1]
Current(h) == h[Len(h)]

\* the ledger file: absent, a JSON dump of a history, or cut short (to zero
\* bytes or to a part of the dump) by a write that failed, or by a process
\* that stopped, after open(p, 'w') truncated it
NoFile == [kind |-> "absent"]

Dumped(h) == [kind |-> "json", versions |-> h]

Truncated == [kind |-> "truncated"]

\* a JSON list with an item that is no PromptVersion
InvalidRecords == [kind |-> "invalid_records"]

\* the JSON text {}: parsable, and iterating it yields nothing
EmptyObject == [kind |-> "empty_object"]

\* the ledger files a process can find when it starts for the first time
InitialBlobs == {NoFile, Dumped(<<>>), Truncated, InvalidRecords, EmptyObject}

SaveOutcomes == {"written", "write_failed"}

\* _save_history: safe_write_file, its IOError logged and swallowed
SaveHistory(h, file, outcome) ==
    CASE outcome = "written" -> Dumped(h)
      [] outcome = "write_failed" -> Truncated

\* what the Model Gateway returns for the evolution request, or its failure
SUMMARY_ON_ERROR == <<"None (Error)">>

ImprovedPrompt == <<"You are Uroboros", "Run the tests first">>

Evolutions ==
    {[optimized_prompt |-> ImprovedPrompt, change_summary |-> s] :
        s \in {<<"Added a rule">>, <<>>}}

GatewayOutcomes ==
    {[raised |-> FALSE, evolution |-> ev] : ev \in Evolutions}
        \cup {[raised |-> TRUE]}

\* MetaPrompter.evolve_system_prompt: the Gateway's evolution, or on any
\* exception the current prompt again
evolve_system_prompt(current_prompt, outcome) ==
    IF outcome.raised
    THEN [optimized_prompt |-> current_prompt,
          change_summary |-> SUMMARY_ON_ERROR]
    ELSE outcome.evolution

\* record_run updating the first version of the ledger
RecordRunOnFirst(h, succeeded) ==
    LET runs == h[1].runs + 1
        successes == h[1].successes + (IF succeeded THEN 1 ELSE 0)
    IN  [h EXCEPT ![1] = [@ EXCEPT !.runs = runs,
                                   !.successes = successes,
                                   !.avg_success_rate =
                                        Quotient(successes, runs)]]

\* record_run on a history that has a head: the statistics of the head
RecordRunOn(h, succeeded) ==
    LET runs == Current(h).runs + 1
        successes == Current(h).successes + (IF succeeded THEN 1 ELSE 0)
    IN  [h EXCEPT ![Len(h)] = [@ EXCEPT !.runs = runs,
                                        !.successes = successes,
                                        !.avg_success_rate =
                                            Quotient(successes, runs)]]

\* the guards of step that evolve at a rate equal to the threshold too
ShouldEvolveAtThreshold(h) ==
    /\ h # <<>>
    /\ ~(Current(h).runs < evolution_threshold_runs)
    /\ ~RateLess(evolution_threshold_rate, Current(h).avg_success_rate)

\* the three early returns of step, negated
ShouldEvolve(h) ==
    /\ h # <<>>
    /\ ~(Current(h).runs < evolution_threshold_runs)
    /\ ~(~RateLess(Current(h).avg_success_rate, evolution_threshold_rate))

\* the version step appends, with itself as parent
NewVersionOwnParent(cvid, current, evolution) ==
    PromptVersion(cvid + 1, evolution.optimized_prompt, cvid + 1,
                  evolution.change_summary)

\* the version step appends
NewVersion(cvid, current, evolution) ==
    PromptVersion(cvid + 1, evolution.optimized_prompt, current.version_id,
                  evolution.change_summary)

(***************************************************************************)
(* Init                                                                    *)
(***************************************************************************)
\* a file that is not there, and a file with its content
Missing == [exists |-> FALSE]

FileWith(content) == [exists |-> TRUE, content |-> content]

\* main before the while loop of loop mode
LoopIdle ==
    /\ lpc = "head"
    /\ sleeping = 0
    /\ in_flight = 0
    /\ loop_log = <<>>

\* no apply_to_file call yet
PatcherIdle ==
    /\ ppc = "idle"
    /\ original_file = Missing
    /\ backup_file = Missing
    /\ patch_diff = Unbound
    /\ patch_before = Unbound
    /\ patch_log = <<>>
    /\ patch_ret = "none"

\* the engine and main before the first cycle
CycleInit ==
    /\ LoopIdle
    /\ pc = "start"
    /\ task = Unbound
    /\ attempts = 0
    /\ success = FALSE
    /\ previous_feedback = <<>>
    /\ solution = Unbound
    /\ adversarial_tests = Unbound
    /\ source_files = Unbound
    /\ clean_test_files = Unbound
    /\ result = Unbound
    /\ new_skill = Unbound
    /\ verdict = "none"
    /\ raised = NoRaise
    /\ collection = <<>>
    /\ xpc = "idle"
    /\ sandbox = "None"
    /\ widx = 1
    /\ xresult = Unbound
    /\ sandbox_fs = {}
    /\ leases = 0
    /\ xerror = Unbound
    /\ xcalls = <<>>
    /\ origTask = Unbound
    /\ solveArgs = <<>>
    /\ statuses = <<>>
    /\ stored = <<>>
    /\ recordRuns = <<>>
    /\ runOutcome = Unbound
    /\ mem_call = [op |-> "none"]
    /\ system_prompt = Unbound

EngineInit == CycleInit /\ PatcherIdle

\* the engine constructs no PromptOptimizer: the ledger it would open
Init ==
    /\ EngineInit
    /\ history = <<Genesis>>
    /\ current_version_id = 0
    /\ ledger_file = NoFile
    /\ last_op = "none"
    /\ step_ret = Unbound
    /\ gateway_failed = FALSE
    /\ loaded_from = Unbound

(***************************************************************************)
(* OuroborosEngine.run_cycle                                               *)
(***************************************************************************)
PASSED == "passed"

FAILED == "failed"

ERROR == "error"

SKIPPED == "skipped"

\* LoopCond with the bound off by one
LoopCondOffByOne == attempts <= max_retries /\ ~success

\* the while condition of the attempt loop
LoopCond == attempts < max_retries /\ ~success

\* Task(id=..., description=...): the other fields take their defaults
Task(id, description) ==
    [id |-> id, description |-> description, requirements |-> <<>>,
     initial_files |-> <<>>]

\* the step run_cycle awaits next when a step of an attempt returned, with
\* the Adversary left out
NextStepSkipsAttack(step) ==
    CASE step = "solve" -> "verify"
      [] step = "attack" -> "verify"
      [] step = "verify" -> "judge"

\* the step run_cycle awaits next when a step of an attempt returned
NextStep(step) ==
    CASE step = "solve" -> "attack"
      [] step = "attack" -> "verify"
      [] step = "verify" -> "judge"

\* the update putting the feedback envelope in place of the description
WithFeedbackReplacing(t, fb) ==
    [t EXCEPT !.description = <<LF, LF, FEEDBACK_MARKER, LF>> \o fb]

\* task.model_copy(update={"description": ...}) with the feedback envelope
WithFeedback(t, fb) ==
    [t EXCEPT !.description = @ \o <<LF, LF, FEEDBACK_MARKER, LF>> \o fb]

FeedbackContent(r) ==
    <<"STDOUT:", LF>> \o r.stdout \o <<LF, LF, "STDERR:", LF>> \o r.stderr

\* PreviousFeedback carrying the stderr alone
PreviousFeedbackStderrOnly(r) == r.stderr

PreviousFeedback(r) == <<"Test Failed. Output:", LF>> \o FeedbackContent(r)

\* the comprehension that turns patches (or test files) into FileArtifacts
CleanFiles(items, field) ==
    [i \in 1..Len(items) |->
        [file_path |-> items[i].file_path,
         content |-> clean_code_block(items[i][field])]]

\* IsPassed taking everything but FAILED for a pass
IsPassedNotFailed(r) == r.status # FAILED

IsPassed(r) == r.status = PASSED

\* SkillName without the slice of the id
SkillNameFullId(id) == <<"skill_">> \o id

SkillName(id) == <<"skill_">> \o PyPrefix(id, IdPrefixLen)

NewSkill(t, files) ==
    [name |-> SkillName(t.id),
     code |-> files[1].content,
     docstring |-> <<"Solution for: ">> \o t.description,
     tags |-> <<"verified", "auto-generated">>]

\* an upsert under the code of the skill
UpsertKeyedByCode(c, skill) ==
    LET entry == [document |-> skill.code,
                  metadata |-> [name |-> skill.name,
                                docstring |-> skill.docstring,
                                tags |-> <<"json", skill.tags>>]]
    IN  [n \in DOMAIN c \cup {skill.code} |->
            IF n = skill.code THEN entry ELSE c[n]]

\* collection.upsert(ids=[skill.name], documents=[skill.code], metadatas=[...])
Upsert(c, skill) ==
    LET entry == [document |-> skill.code,
                  metadata |-> [name |-> skill.name,
                                docstring |-> skill.docstring,
                                tags |-> <<"json", skill.tags>>]]
    IN  [n \in DOMAIN c \cup {skill.name} |->
            IF n = skill.name THEN entry ELSE c[n]]

Smaller(a, b) == IF a < b THEN a ELSE b

\* s[:k] for k >= 0
Take(s, k) == SubSeq(s, 1, Smaller(k, Len(s)))

\* the skills callers store
StoredNames == {<<"skill_", "a">>, <<"skill_", "b">>}

Skills ==
    [name : StoredNames,
     code : {<<"def f(): return 1">>, <<"def f(): return 2">>},
     docstring : {<<"Solution for: ", "write add(a,b)">>},
     tags : {<<"verified", "auto-generated">>, <<>>}]

\* json.loads of what json.dumps wrote
JsonLoads(text) == text[2]

\* the Skill retrieve_relevant_skills rebuilds from a stored entry
SkillOf(entry) ==
    [name |-> entry.metadata.name,
     docstring |-> entry.metadata.docstring,
     code |-> entry.document,
     tags |-> JsonLoads(entry.metadata.tags)]

\* retrieve_relevant_skills asking the store for one result more
NResultsOneMore(limit) == limit + 1

\* n_results of the query retrieve_relevant_skills makes
NResults(limit) == limit

\* collection.query: the ids of the n nearest entries, nearest first, or of
\* all entries when there are fewer; which entries are nearest is left open
Query(c, n) ==
    {ids \in SeqsUpTo(DOMAIN c, n) :
        Len(ids) = Smaller(n, Cardinality(DOMAIN c))}

\* the skills of the entries a query found
Retrieved(c, ids) == [i \in 1..Len(ids) |-> SkillOf(c[ids[i]])]

\* skill_context of actor.solve
RECURSIVE SkillLines(_)
SkillLines(skills) ==
    IF skills = <<>> THEN <<>>
    ELSE <<"- ">> \o skills[1].name \o <<": ">> \o skills[1].docstring
            \o SkillLines(Tail(skills))

SkillContext(relevant_skills) ==
    IF relevant_skills # <<>>
    THEN SkillLines(relevant_skills)
    ELSE <<"No relevant past skills found.">>

\* system_prompt of actor.solve: a literal around the skill context
ActorSystemPrompt(skill_context) ==
    <<"You are uroboros", "### Memory (Learned Skills):">>
        \o skill_context \o <<"### Instructions:">>

\* the candidates and the selections of a re-rank
CandidateNames == {"skill_a", "skill_b", "skill_c"}

Candidate(n) ==
    [name |-> n, docstring |-> <<"Solution for: ", n>>,
     code |-> <<"def ", n>>, tags |-> <<"verified", "auto-generated">>]

CandidateLists ==
    {[i \in 1..Len(ns) |-> Candidate(ns[i])] :
        ns \in SeqsUpTo(CandidateNames, Cardinality(CandidateNames))}

\* ReRankResult.selected_skill_names, or the failure of the model call
Selections == SeqsUpTo(CandidateNames \cup {"skill_unknown"}, MaxSelect)

RerankOutcomes ==
    {[raised |-> FALSE, selected_skill_names |-> sel] : sel \in Selections}
        \cup {[raised |-> TRUE]}

\* rerank asking the model also for a list of exactly top_k candidates
RerankNeedsModelAtK(candidates, top_k) ==
    candidates # <<>> /\ ~(Len(candidates) < top_k)

\* the two early returns of rerank, negated
RerankNeedsModel(candidates, top_k) ==
    candidates # <<>> /\ ~(Len(candidates) <= top_k)

\* the fallback of rerank returning every candidate
RerankFallbackAll(candidates, top_k) == candidates

\* candidates[:top_k]
RerankFallback(candidates, top_k) == Take(candidates, top_k)

\* [s for s in candidates if s.name in selected_map]
FinalSkills(candidates, names) ==
    LET Selected(s) == \E i \in 1..Len(names) : names[i] = s.name
    IN  SelectSeq(candidates, Selected)

\* RetrievalStrategy.rerank, given what the model call does if it is made
rerank(candidates, top_k, outcome) ==
    IF ~RerankNeedsModel(candidates, top_k)
    THEN candidates
    ELSE IF outcome.raised
         THEN RerankFallback(candidates, top_k)
         ELSE LET final_skills ==
                    FinalSkills(candidates, outcome.selected_skill_names)
              IN  IF final_skills = <<>>
                  THEN RerankFallback(candidates, top_k)
                  ELSE Take(final_skills, top_k)

xVars == <<xpc, sandbox, widx, xresult, sandbox_fs, leases, xerror, xcalls,
           runOutcome>>

\* phase 1 with a task description given by the caller
GenerateUserTask ==
    /\ pc = "start"
    /\ \E d \in Descriptions, id \in UuidIds :
        /\ task' = Task(id, d)
        /\ origTask' = task'
    /\ pc' = "loop"
    /\ UNCHANGED <<attempts, success, previous_feedback, solution,
                   adversarial_tests, source_files, clean_test_files, result,
                   new_skill, verdict, raised, collection, history, solveArgs,
                   statuses, stored, recordRuns, ledgerVars, memVars>>
    /\ UNCHANGED xVars

\* phase 1 without a description: adversary.generate_curriculum returns
CurriculumReturns ==
    /\ pc = "start"
    /\ \E d \in Descriptions, id \in TaskIds :
        /\ task' = Task(id, d)
        /\ origTask' = task'
    /\ pc' = "loop"
    /\ UNCHANGED <<attempts, success, previous_feedback, solution,
                   adversarial_tests, source_files, clean_test_files, result,
                   new_skill, verdict, raised, collection, history, solveArgs,
                   statuses, stored, recordRuns, ledgerVars, memVars>>
    /\ UNCHANGED xVars

\* an exception leaves run_cycle: nothing in run_cycle catches it
Propagate(type, at) ==
    /\ raised' = [type |-> type, at |-> at]
    /\ pc' = "raised"

CurriculumRaises ==
    /\ pc = "start"
    /\ Propagate("LLMError", "curriculum")
    /\ UNCHANGED <<task, attempts, success, previous_feedback, solution,
                   adversarial_tests, source_files, clean_test_files, result,
                   new_skill, verdict, collection, history, origTask,
                   solveArgs, statuses, stored, recordRuns, ledgerVars, memVars>>
    /\ UNCHANGED xVars

\* the loop head: count the attempt, append the feedback, call actor.solve.
\* The locals an iteration binds before it reads them (solution, the file
\* lists, result) are unbound again at the start of the iteration.
LoopHead ==
    /\ pc = "loop"
    /\ IF LoopCond
       THEN /\ attempts' = attempts + 1
            /\ task' = IF previous_feedback # <<>>
                       THEN WithFeedback(task, previous_feedback)
                       ELSE task
            /\ solveArgs' = Append(solveArgs, task'.description)
            /\ solution' = Unbound
            /\ adversarial_tests' = Unbound
            /\ source_files' = Unbound
            /\ clean_test_files' = Unbound
            /\ result' = Unbound
            /\ runOutcome' = Unbound
            /\ pc' = "solve"
       ELSE /\ pc' = "final"
            /\ UNCHANGED <<attempts, task, solveArgs, solution,
                           adversarial_tests, source_files, clean_test_files,
                           result, runOutcome>>
    /\ UNCHANGED <<success, previous_feedback, new_skill, verdict, raised,
                   collection, history, origTask, statuses, stored,
                   recordRuns, ledgerVars, memVars>>
    /\ UNCHANGED <<xpc, sandbox, widx, xresult, sandbox_fs, leases, xerror,
                   xcalls>>

\* actor.solve returns a Solution; solve overwrites its task_id
ActorReturns ==
    /\ pc = "solve"
    /\ \E ps \in PatchLists :
        solution' = [task_id |-> task.id, patches |-> ps]
    /\ \E ids \in Query(collection, NResults(SolveSkillLimit)) :
        system_prompt' =
            ActorSystemPrompt(SkillContext(Retrieved(collection, ids)))
    /\ pc' = NextStep("solve")
    /\ UNCHANGED <<task, attempts, success, previous_feedback,
                   adversarial_tests, source_files, clean_test_files, result,
                   new_skill, verdict, raised, collection, history, origTask,
                   solveArgs, statuses, stored, recordRuns, ledgerVars,
                   mem_call, sideVars>>
    /\ UNCHANGED xVars

\* the embedding call or the model call inside actor.solve raises
ActorRaises ==
    /\ pc = "solve"
    /\ \E type \in {"EmbeddingError", "LLMError"} : Propagate(type, "solve")
    /\ UNCHANGED <<task, attempts, success, previous_feedback, solution,
                   adversarial_tests, source_files, clean_test_files, result,
                   new_skill, verdict, collection, history, origTask,
                   solveArgs, statuses, stored, recordRuns, ledgerVars, memVars>>
    /\ UNCHANGED xVars

\* generate_adversarial_tests returns; the files are cleaned and
\* arbiter.execute is entered up to its first await
AdversaryReturns ==
    /\ pc = "attack"
    /\ \E tests \in TestFileLists :
        /\ adversarial_tests' = tests
        /\ clean_test_files' = CleanFiles(tests, "content")
    /\ source_files' = CleanFiles(solution.patches, "diff")
    /\ pc' = NextStep("attack")
    /\ xpc' = "create"
    /\ sandbox' = "None"
    /\ xresult' = Unbound
    /\ widx' = 1
    /\ xerror' = Unbound
    /\ xcalls' = <<>>
    /\ runOutcome' = Unbound
    /\ UNCHANGED <<sandbox_fs, leases>>
    /\ UNCHANGED <<task, attempts, success, previous_feedback, solution,
                   result, new_skill, verdict, raised, collection, history,
                   origTask, solveArgs, statuses, stored, recordRuns, ledgerVars, memVars>>

AdversaryRaises ==
    /\ pc = "attack"
    /\ Propagate("LLMError", "attack")
    /\ UNCHANGED <<task, attempts, success, previous_feedback, solution,
                   adversarial_tests, source_files, clean_test_files, result,
                   new_skill, verdict, collection, history, origTask,
                   solveArgs, statuses, stored, recordRuns, ledgerVars, memVars>>
    /\ UNCHANGED xVars

\* the branch on the Arbiter's verdict, up to the await of store_skill
Judge ==
    /\ pc = "judge"
    /\ IF IsPassed(result)
       THEN /\ success' = TRUE
            /\ IF source_files = <<>>
               THEN \* source_files[0] raises IndexError
                    /\ Propagate("IndexError", "consolidate")
                    /\ UNCHANGED <<new_skill, stored>>
               ELSE /\ new_skill' = NewSkill(task, source_files)
                    /\ stored' = Append(stored, new_skill')
                    /\ pc' = "store"
                    /\ UNCHANGED raised
            /\ UNCHANGED previous_feedback
       ELSE /\ previous_feedback' = PreviousFeedback(result)
            /\ pc' = "loop"
            /\ UNCHANGED <<success, new_skill, stored, raised>>
    /\ UNCHANGED <<task, attempts, solution, adversarial_tests, source_files,
                   clean_test_files, result, verdict, collection, history,
                   origTask, solveArgs, statuses, recordRuns, ledgerVars, memVars>>
    /\ UNCHANGED xVars

\* memory.store_skill returns: the skill is upserted under its name
StoreSkillReturns ==
    /\ pc = "store"
    /\ collection' = Upsert(collection, new_skill)
    /\ pc' = "loop"
    /\ UNCHANGED <<task, attempts, success, previous_feedback, solution,
                   adversarial_tests, source_files, clean_test_files, result,
                   new_skill, verdict, raised, history, origTask, solveArgs,
                   statuses, stored, recordRuns, ledgerVars, memVars>>
    /\ UNCHANGED xVars

\* the embedding call or the upsert inside store_skill raises
StoreSkillRaises ==
    /\ pc = "store"
    /\ \E type \in {"EmbeddingError", "VectorStoreError"} :
        Propagate(type, "store")
    /\ UNCHANGED <<task, attempts, success, previous_feedback, solution,
                   adversarial_tests, source_files, clean_test_files, result,
                   new_skill, verdict, collection, history, origTask,
                   solveArgs, statuses, stored, recordRuns, ledgerVars, memVars>>
    /\ UNCHANGED xVars

\* after the loop: the terminal log line
CycleComplete ==
    /\ pc = "final"
    /\ verdict' = IF success THEN "SUCCESS" ELSE "FAILED"
    /\ pc' = "done"
    /\ UNCHANGED <<task, attempts, success, previous_feedback, solution,
                   adversarial_tests, source_files, clean_test_files, result,
                   new_skill, raised, collection, history, origTask,
                   solveArgs, statuses, stored, recordRuns, ledgerVars, memVars>>
    /\ UNCHANGED xVars

(***************************************************************************)
(* E2BArbiter.execute                                                      *)
(***************************************************************************)
TestResult(status, stdout, stderr, exit_code) ==
    [status |-> status, stdout |-> stdout, stderr |-> stderr,
     exit_code |-> exit_code]

\* str(error)
Str(e) == e.msg

\* _parse_process_output
ParseProcessOutput(proc_output) ==
    TestResult(PASSED,
               GetAttr(proc_output, "stdout", <<>>),
               GetAttr(proc_output, "stderr", <<>>),
               GetAttr(proc_output, "exit_code", 0))

\* HandleCommandException with 0 as the default exit code
HandleCommandExceptionDefaultZero(error) ==
    TestResult(FAILED,
               GetAttr(error, "stdout", <<>>),
               GetAttr(error, "stderr", Str(error)),
               GetAttr(error, "exit_code", 0))

\* _handle_command_exception
HandleCommandException(error) ==
    TestResult(FAILED,
               GetAttr(error, "stdout", <<>>),
               GetAttr(error, "stderr", Str(error)),
               GetAttr(error, "exit_code", 1))

\* the except clauses of the outer try: TimeoutError first, then Exception
OuterExcept(e) ==
    IF e.type = "TimeoutError"
    THEN TestResult(ERROR, <<>>, <<"Execution Timed Out">>, 124)
    ELSE TestResult(ERROR, <<>>, <<"Infrastructure Error: ">> \o Str(e), 1)

\* the files execute writes, sources first
AllFiles == source_files \o clean_test_files

\* any(f.file_path == "requirements.txt" for f in files)
HasRequirements ==
    \E i \in 1..Len(source_files) :
        source_files[i].file_path = "requirements.txt"

\* the test command right after the writes, whatever was written
AfterWritesSkipsInstall == "run"

\* after the last write: the installation if requirements.txt is in files
AfterWrites == IF HasRequirements THEN "install" ELSE "run"

\* pytest collects tests from test_*.py files only; it exits with 5 exactly
\* when it ran and collected none
CollectsTests ==
    \E i \in 1..Len(AllFiles) : AllFiles[i].file_path \in TestPaths

\* asyncio.CancelledError: a BaseException, so no except Exception clause
\* of execute catches it
Cancelled == [type |-> "CancelledError", msg |-> <<>>]

\* execute handing out the sandbox leased last again
AcquireSandboxCached(n, fs) ==
    IF n = 0 THEN [id |-> 1, fs |-> {}] ELSE [id |-> n, fs |-> fs]

\* AsyncSandbox.create: the vendor leases a new sandbox with an empty
\* filesystem; n sandboxes were leased before, fs is the last one's files
AcquireSandbox(n, fs) == [id |-> n + 1, fs |-> {}]

\* an exception reaches the outer try of execute
CaughtOutside(e) ==
    /\ xresult' = OuterExcept(e)
    /\ xerror' = [at |-> xpc, e |-> e]
    /\ xcalls' = Append(xcalls, xpc)
    /\ xpc' = "finally"

SandboxCreateReturns ==
    /\ pc = "verify" /\ xpc = "create"
    /\ sandbox' = "leased"
    /\ LET leased == AcquireSandbox(leases, sandbox_fs)
       IN  /\ leases' = leased.id
           /\ sandbox_fs' = leased.fs
    /\ xcalls' = Append(xcalls, "create")
    /\ xpc' = IF Len(AllFiles) = 0 THEN AfterWrites ELSE "write"
    /\ UNCHANGED <<widx, xresult, xerror, runOutcome>>
    /\ UNCHANGED cycleVars

SandboxCreateRaises ==
    /\ pc = "verify" /\ xpc = "create"
    /\ \E e \in InfraExceptions : CaughtOutside(e)
    /\ UNCHANGED <<sandbox, widx, sandbox_fs, leases, runOutcome>>
    /\ UNCHANGED cycleVars

\* _write_file for the next file
WriteFileReturns ==
    /\ pc = "verify" /\ xpc = "write"
    /\ sandbox_fs' = sandbox_fs \cup {AllFiles[widx].file_path}
    /\ widx' = widx + 1
    /\ xcalls' = Append(xcalls, "write")
    /\ xpc' = IF widx = Len(AllFiles) THEN AfterWrites ELSE "write"
    /\ UNCHANGED <<sandbox, xresult, leases, xerror, runOutcome>>
    /\ UNCHANGED cycleVars

WriteFileRaises ==
    /\ pc = "verify" /\ xpc = "write"
    /\ \E e \in InfraExceptions : CaughtOutside(e)
    /\ UNCHANGED <<sandbox, widx, sandbox_fs, leases, runOutcome>>
    /\ UNCHANGED cycleVars

\* pip install -r requirements.txt
InstallDepsReturns ==
    /\ pc = "verify" /\ xpc = "install"
    /\ xcalls' = Append(xcalls, "install")
    /\ xpc' = "run"
    /\ UNCHANGED <<sandbox, widx, xresult, sandbox_fs, leases, xerror,
                   runOutcome>>
    /\ UNCHANGED cycleVars

InstallDepsRaises ==
    /\ pc = "verify" /\ xpc = "install"
    /\ \E e \in CommandExceptions : CaughtOutside(e)
    /\ UNCHANGED <<sandbox, widx, sandbox_fs, leases, runOutcome>>
    /\ UNCHANGED cycleVars

\* the test command returns normally
RunTestsReturns ==
    /\ pc = "verify" /\ xpc = "run"
    /\ CollectsTests
    /\ \E proc \in ProcOutputs :
        /\ xresult' = ParseProcessOutput(proc)
        /\ runOutcome' = [type |-> "returned", exit_code |-> proc.exit_code]
    /\ xcalls' = Append(xcalls, "run")
    /\ xpc' = "finally"
    /\ UNCHANGED <<sandbox, widx, sandbox_fs, leases, xerror>>
    /\ UNCHANGED cycleVars

\* the test command raises: the inner except Exception catches everything
RunTestsRaises ==
    /\ pc = "verify" /\ xpc = "run"
    /\ \E e \in CommandExceptions :
        /\ e.type = "CommandExitException" =>
                (e.exit_code = 5 <=> ~CollectsTests)
        /\ xresult' = HandleCommandException(e)
        /\ xerror' = [at |-> "run", e |-> e]
        /\ runOutcome' = e
    /\ xcalls' = Append(xcalls, "run")
    /\ xpc' = "finally"
    /\ UNCHANGED <<sandbox, widx, sandbox_fs, leases>>
    /\ UNCHANGED cycleVars

\* the task running execute is cancelled while it awaits a vendor call of
\* the try block: CancelledError passes both except clauses and reaches the
\* finally block with result still None
ExecuteCancelled ==
    /\ pc = "verify" /\ xpc \in {"create", "write", "install", "run"}
    /\ xerror' = [at |-> xpc, e |-> Cancelled]
    /\ xcalls' = Append(xcalls, xpc)
    /\ xpc' = "finally"
    /\ UNCHANGED <<sandbox, widx, xresult, sandbox_fs, leases, runOutcome>>
    /\ UNCHANGED cycleVars

\* an exception no except clause caught is in flight through the finally
ExceptionInFlight == xerror # Unbound /\ xerror.e.type = "CancelledError"

\* the finally block kills only when result is set
NeedsKillWhenResult == sandbox = "leased" /\ xresult # Unbound

\* if sandbox: in the finally block, before the kill
NeedsKill == sandbox = "leased"

\* the finally block: a leased sandbox is killed; a failure of the kill is
\* logged and swallowed
SandboxKill ==
    /\ pc = "verify" /\ xpc = "finally"
    /\ NeedsKill
    /\ sandbox' \in {"killed", "kill_failed"}
    /\ UNCHANGED sandbox_fs
    /\ xcalls' = Append(xcalls, "kill")
    /\ UNCHANGED <<xpc, widx, xresult, leases, xerror, runOutcome>>
    /\ UNCHANGED cycleVars

\* execute returns its result to run_cycle; its frame is gone
ExecuteReturns ==
    /\ pc = "verify" /\ xpc = "finally"
    /\ ~NeedsKill
    /\ ~ExceptionInFlight
    /\ result' = xresult
    /\ statuses' = Append(statuses, xresult.status)
    /\ pc' = NextStep("verify")
    /\ xpc' = "idle"
    /\ sandbox' = "None"
    /\ widx' = 1
    /\ xresult' = Unbound
    /\ xerror' = Unbound
    /\ xcalls' = <<>>
    /\ sandbox_fs' = {}
    /\ UNCHANGED <<leases, runOutcome>>
    /\ UNCHANGED <<task, attempts, success, previous_feedback, solution,
                   adversarial_tests, source_files, clean_test_files,
                   new_skill, verdict, raised, collection, history, origTask,
                   solveArgs, stored, recordRuns, ledgerVars, memVars>>

\* the exception in flight leaves execute after the finally block, and
\* run_cycle with it
ExecutePropagates ==
    /\ pc = "verify" /\ xpc = "finally"
    /\ ~NeedsKill
    /\ ExceptionInFlight
    /\ Propagate(xerror.e.type, "verify")
    /\ xpc' = "idle"
    /\ sandbox' = "None"
    /\ widx' = 1
    /\ xresult' = Unbound
    /\ xerror' = Unbound
    /\ xcalls' = <<>>
    /\ sandbox_fs' = {}
    /\ UNCHANGED <<leases, runOutcome>>
    /\ UNCHANGED <<task, attempts, success, previous_feedback, solution,
                   adversarial_tests, source_files, clean_test_files, result,
                   new_skill, verdict, collection, history, origTask,
                   solveArgs, statuses, stored, recordRuns, ledgerVars, memVars>>

(***************************************************************************)
(* Specification                                                           *)
(***************************************************************************)
Next ==
    \/ GenerateUserTask
    \/ CurriculumReturns
    \/ CurriculumRaises
    \/ LoopHead
    \/ ActorReturns
    \/ ActorRaises
    \/ AdversaryReturns
    \/ AdversaryRaises
    \/ SandboxCreateReturns
    \/ SandboxCreateRaises
    \/ WriteFileReturns
    \/ WriteFileRaises
    \/ InstallDepsReturns
    \/ InstallDepsRaises
    \/ RunTestsReturns
    \/ RunTestsRaises
    \/ ExecuteCancelled
    \/ SandboxKill
    \/ ExecuteReturns
    \/ ExecutePropagates
    \/ Judge
    \/ StoreSkillReturns
    \/ StoreSkillRaises
    \/ CycleComplete

Spec == Init /\ [][Next]_vars

(***************************************************************************)
(* PromptOptimizer: the prompt ledger on its own                           *)
(***************************************************************************)
engineVars == <<pc, task, attempts, success, previous_feedback, solution,
                adversarial_tests, source_files, clean_test_files, result,
                new_skill, verdict, raised, collection, xpc, sandbox, widx,
                xresult, sandbox_fs, leases, xerror, xcalls, origTask,
                solveArgs, statuses, stored, recordRuns, runOutcome, mem_call,
                system_prompt, sideVars>>

\* _initialize_history without its save
InitializeHistory(h) == Append(h, Genesis)

\* current_prompt
current_prompt(h) == IF h = <<>> THEN DefaultPrompt ELSE Current(h).content

\* _load_history on a PromptOptimizer fresh from __init__ (history empty,
\* current_version_id 0), without the save of _initialize_history: what
\* json.loads and PromptVersion(**item) raise is caught and answered with
\* the genesis version
LoadHistory(file) ==
    CASE file.kind = "absent" ->
            [history |-> InitializeHistory(<<>>), current_version_id |-> 0,
             initialized |-> TRUE]
      [] file.kind = "json" ->
            [history |-> file.versions,
             current_version_id |->
                IF file.versions # <<>>
                THEN Current(file.versions).version_id
                ELSE 0,
             initialized |-> FALSE]
      [] file.kind = "empty_object" ->
            [history |-> <<>>, current_version_id |-> 0,
             initialized |-> FALSE]
      [] OTHER ->
            [history |-> InitializeHistory(<<>>), current_version_id |-> 0,
             initialized |-> TRUE]

\* PromptOptimizer.__init__ in a process that starts for the first time
LedgerInit ==
    /\ EngineInit
    /\ \E file \in InitialBlobs, o \in SaveOutcomes :
        LET loaded == LoadHistory(file)
        IN  /\ history = loaded.history
            /\ current_version_id = loaded.current_version_id
            /\ ledger_file = IF loaded.initialized
                             THEN SaveHistory(loaded.history, file, o)
                             ELSE file
            /\ loaded_from = file
    /\ last_op = "load"
    /\ step_ret = Unbound
    /\ gateway_failed = FALSE

\* the process starts again: PromptOptimizer.__init__ finds the ledger file
\* the process before left
Restart ==
    /\ \E o \in SaveOutcomes :
        LET loaded == LoadHistory(ledger_file)
        IN  /\ history' = loaded.history
            /\ current_version_id' = loaded.current_version_id
            /\ ledger_file' = IF loaded.initialized
                              THEN SaveHistory(loaded.history, ledger_file, o)
                              ELSE ledger_file
    /\ loaded_from' = ledger_file
    /\ last_op' = "load"
    /\ step_ret' = Unbound
    /\ gateway_failed' = FALSE
    /\ UNCHANGED engineVars

\* record_run(success)
RecordRun ==
    /\ \E succeeded \in BOOLEAN, o1, o2 \in SaveOutcomes :
        LET initialized == IF history = <<>>
                           THEN InitializeHistory(history)
                           ELSE history
            file1 == IF history = <<>>
                     THEN SaveHistory(initialized, ledger_file, o1)
                     ELSE ledger_file
        IN  /\ Current(initialized).runs < MaxRuns
            /\ history' = RecordRunOn(initialized, succeeded)
            /\ ledger_file' = SaveHistory(history', file1, o2)
    /\ last_op' = "record_run"
    /\ loaded_from' = Unbound
    /\ UNCHANGED <<current_version_id, step_ret, gateway_failed>>
    /\ UNCHANGED engineVars

\* step(recent_failures), the await of the Model Gateway included
Step ==
    /\ IF ShouldEvolve(history)
       THEN /\ Len(history) < MaxVersions
            /\ \E outcome \in GatewayOutcomes, o \in SaveOutcomes :
                LET current == Current(history)
                    evolution == evolve_system_prompt(current.content, outcome)
                IN  /\ history' = Append(history,
                            NewVersion(current_version_id, current, evolution))
                    /\ ledger_file' = SaveHistory(history', ledger_file, o)
                    /\ gateway_failed' = outcome.raised
            /\ current_version_id' = current_version_id + 1
            /\ step_ret' = TRUE
       ELSE /\ step_ret' = FALSE
            /\ gateway_failed' = FALSE
            /\ UNCHANGED <<history, current_version_id, ledger_file>>
    /\ last_op' = "step"
    /\ loaded_from' = Unbound
    /\ UNCHANGED engineVars

LedgerNext ==
    \/ RecordRun
    \/ Step
    \/ Restart

LedgerSpec == LedgerInit /\ [][LedgerNext]_vars

(***************************************************************************)
(* The generator and the ledger of one process                             *)
(***************************************************************************)
\* actor.solve called between two operations of the ledger, returning
ActorSolve ==
    /\ \E ids \in Query(collection, NResults(SolveSkillLimit)) :
        system_prompt' =
            ActorSystemPrompt(SkillContext(Retrieved(collection, ids)))
    /\ last_op' = "solve"
    /\ UNCHANGED <<history, current_version_id, ledger_file, step_ret,
                   gateway_failed, loaded_from>>
    /\ UNCHANGED <<pc, task, attempts, success, previous_feedback, solution,
                   adversarial_tests, source_files, clean_test_files, result,
                   new_skill, verdict, raised, collection, origTask,
                   solveArgs, statuses, stored, recordRuns, mem_call,
                   sideVars>>
    /\ UNCHANGED xVars

GeneratorNext ==
    \/ RecordRun
    \/ Step
    \/ ActorSolve

GeneratorSpec == Init /\ [][GeneratorNext]_vars

(***************************************************************************)
(* VoyagerMemory and RetrievalStrategy on their own                        *)
(***************************************************************************)
nonMemoryVars == <<pc, task, attempts, success, previous_feedback, solution,
                   adversarial_tests, source_files, clean_test_files, result,
                   new_skill, verdict, raised, history, xpc, sandbox, widx,
                   xresult, sandbox_fs, leases, xerror, xcalls, origTask,
                   solveArgs, statuses, stored, recordRuns, runOutcome,
                   ledgerVars, system_prompt, sideVars>>

MemoryInit ==
    /\ EngineInit
    /\ history = <<Genesis>>
    /\ current_version_id = 0
    /\ ledger_file = NoFile
    /\ last_op = "none"
    /\ step_ret = Unbound
    /\ gateway_failed = FALSE
    /\ loaded_from = Unbound

\* store_skill returns
StoreSkill ==
    /\ \E skill \in Skills :
        /\ collection' = Upsert(collection, skill)
        /\ mem_call' = [op |-> "store_skill", skill |-> skill,
                        raised |-> FALSE]
    /\ UNCHANGED nonMemoryVars

\* _get_embedding raises inside store_skill, before the upsert
StoreSkillEmbeddingRaises ==
    /\ \E skill \in Skills :
        mem_call' = [op |-> "store_skill", skill |-> skill, raised |-> TRUE]
    /\ UNCHANGED collection
    /\ UNCHANGED nonMemoryVars

\* retrieve_relevant_skills(query, limit) returns
RetrieveRelevantSkills ==
    /\ \E limit \in 1..MaxLimit :
        \E ids \in Query(collection, NResults(limit)) :
            mem_call' = [op |-> "retrieve", limit |-> limit,
                         n_results |-> NResults(limit),
                         reranked |-> FALSE,
                         raised |-> FALSE,
                         result |-> Retrieved(collection, ids)]
    /\ UNCHANGED collection
    /\ UNCHANGED nonMemoryVars

\* _get_embedding raises inside retrieve_relevant_skills
RetrieveEmbeddingRaises ==
    /\ \E limit \in 1..MaxLimit :
        mem_call' = [op |-> "retrieve", limit |-> limit, n_results |-> 0,
                     reranked |-> FALSE, raised |-> TRUE, result |-> <<>>]
    /\ UNCHANGED collection
    /\ UNCHANGED nonMemoryVars

MemoryNext ==
    \/ StoreSkill
    \/ StoreSkillEmbeddingRaises
    \/ RetrieveRelevantSkills
    \/ RetrieveEmbeddingRaises

MemorySpec == MemoryInit /\ [][MemoryNext]_vars

\* a rerank call that returned without asking the model
NoModelAnswer == [raised |-> FALSE, selected_skill_names |-> <<>>]

\* rerank(query, candidates, top_k) up to its await of the model call, or
\* to its return when it makes none
RerankCalled ==
    /\ mem_call.op # "rerank_awaits_model"
    /\ \E candidates \in CandidateLists, top_k \in 0..MaxLimit :
        mem_call' =
            IF RerankNeedsModel(candidates, top_k)
            THEN [op |-> "rerank_awaits_model", candidates |-> candidates,
                  top_k |-> top_k]
            ELSE [op |-> "rerank", candidates |-> candidates,
                  top_k |-> top_k, model_called |-> FALSE,
                  outcome |-> NoModelAnswer,
                  result |-> rerank(candidates, top_k, NoModelAnswer)]
    /\ UNCHANGED collection
    /\ UNCHANGED nonMemoryVars

\* the model call of rerank returns or raises, and rerank returns
RerankModelAnswers ==
    /\ mem_call.op = "rerank_awaits_model"
    /\ \E outcome \in RerankOutcomes :
        mem_call' = [op |-> "rerank", candidates |-> mem_call.candidates,
                     top_k |-> mem_call.top_k, model_called |-> TRUE,
                     outcome |-> outcome,
                     result |-> rerank(mem_call.candidates, mem_call.top_k,
                                       outcome)]
    /\ UNCHANGED collection
    /\ UNCHANGED nonMemoryVars

RerankNext ==
    \/ RerankCalled
    \/ RerankModelAnswers

RerankSpec == MemoryInit /\ [][RerankNext]_vars

(***************************************************************************)
(* main in loop mode                                                       *)
(***************************************************************************)
\* everything but the loop of main
loopFrame == <<pc, task, attempts, success, previous_feedback, solution,
               adversarial_tests, source_files, clean_test_files, result,
               new_skill, verdict, raised, collection, history, xpc, sandbox,
               widx, xresult, sandbox_fs, leases, xerror, xcalls, origTask,
               solveArgs, statuses, stored, recordRuns, runOutcome,
               ledgerVars, mem_call, system_prompt, patcherVars>>

\* the exceptions of class Exception a cycle can end by: those run_cycle
\* lets through, and the RuntimeError of CostManager._check_budget
CycleErrors == {"LLMError", "EmbeddingError", "VectorStoreError",
                "IndexError", "RuntimeError"}

\* what is raised into a cycle or a sleep from outside
Interrupts == {"KeyboardInterrupt", "CancelledError"}

\* the except clauses of the loop sending every exception on
LoopHandlerReraises(type) ==
    IF type = "KeyboardInterrupt" THEN "break" ELSE "propagate"

\* the except clauses around run_cycle and the sleep: which one an
\* exception of this type enters
LoopHandler(type) ==
    IF type = "KeyboardInterrupt" THEN "break"
    ELSE IF type \in CycleErrors THEN "log_and_sleep"
    ELSE "propagate"

\* the top of while True: engine.run_cycle() is called
CycleStarts ==
    /\ lpc = "head"
    /\ Len(loop_log) < MaxCycles
    /\ lpc' = "cycle"
    /\ in_flight' = in_flight + 1
    /\ UNCHANGED <<sleeping, loop_log>>
    /\ UNCHANGED loopFrame

\* run_cycle returns: asyncio.sleep(5) starts
CycleReturns ==
    /\ lpc = "cycle"
    /\ in_flight' = in_flight - 1
    /\ loop_log' = Append(loop_log, [outcome |-> "returned", logged |-> FALSE])
    /\ lpc' = "sleep"
    /\ sleeping' = CycleDelay
    /\ UNCHANGED loopFrame

\* run_cycle ends by an exception
CycleRaises ==
    /\ lpc = "cycle"
    /\ in_flight' = in_flight - 1
    /\ \E type \in CycleErrors \cup Interrupts :
        LET clause == LoopHandler(type)
        IN  /\ loop_log' = Append(loop_log,
                    [outcome |-> type, logged |-> clause = "log_and_sleep"])
            /\ lpc' = CASE clause = "log_and_sleep" -> "sleep"
                        [] clause = "break" -> "exited"
                        [] clause = "propagate" -> "raised"
            /\ sleeping' = IF clause = "log_and_sleep" THEN ErrorDelay ELSE 0
    /\ UNCHANGED loopFrame

\* the sleep ends: back to the top of the loop
SleepReturns ==
    /\ lpc = "sleep"
    /\ lpc' = "head"
    /\ sleeping' = 0
    /\ UNCHANGED <<in_flight, loop_log>>
    /\ UNCHANGED loopFrame

\* the sleep is interrupted: the sleep of 5 is inside the try, the sleep of
\* 10 is inside the except clause and no clause guards it
SleepRaises ==
    /\ lpc = "sleep"
    /\ \E type \in Interrupts :
        lpc' = IF sleeping = CycleDelay /\ LoopHandler(type) = "break"
               THEN "exited" ELSE "raised"
    /\ sleeping' = 0
    /\ UNCHANGED <<in_flight, loop_log>>
    /\ UNCHANGED loopFrame

LoopNext ==
    \/ CycleStarts
    \/ CycleReturns
    \/ CycleRaises
    \/ SleepReturns
    \/ SleepRaises

LoopSpec == Init /\ [][LoopNext]_vars

(***************************************************************************)
(* The feedback of a failed attempt, for test output of any size           *)
(***************************************************************************)
\* 1024 bytes of the output of the test command
KIB == "KIB"

OutputOfKiB(k) == [i \in 1..k |-> KIB]

\* the least number of bytes a token of a text stands for
TokenBytes(tok) == IF tok = KIB THEN 1024 ELSE 1

\* len(text) in bytes, from below
RECURSIVE TextBytes(_)
TextBytes(text) ==
    IF text = <<>> THEN 0 ELSE TokenBytes(Head(text)) + TextBytes(Tail(text))

\* run_cycle when arbiter.execute returned the result of a first attempt
\* whose test command exited 1 with any amount of output
FeedbackInit ==
    /\ LoopIdle
    /\ PatcherIdle
    /\ pc = "judge"
    /\ \E id \in UuidIds :
        /\ Len(id) = MaxIdLen
        /\ task = Task(id, <<"write add(a,b)">>)
        /\ solution = [task_id |-> id,
                       patches |-> <<[file_path |-> "requirements.txt",
                                      diff |-> <<"pytest", LF>>]>>]
    /\ origTask = task
    /\ attempts = 1
    /\ success = FALSE
    /\ previous_feedback = <<>>
    /\ adversarial_tests \in TestFileLists /\ adversarial_tests # <<>>
    /\ source_files = CleanFiles(solution.patches, "diff")
    /\ clean_test_files = CleanFiles(adversarial_tests, "content")
    /\ \E out, err \in 0..MaxKiB :
        /\ runOutcome = [type |-> "CommandExitException", exit_code |-> 1,
                         stdout |-> OutputOfKiB(out),
                         stderr |-> OutputOfKiB(err), msg |-> <<"exit">>]
        /\ result = HandleCommandException(runOutcome)
    /\ new_skill = Unbound
    /\ verdict = "none"
    /\ raised = NoRaise
    /\ collection = <<>>
    /\ xpc = "idle"
    /\ sandbox = "None"
    /\ widx = 1
    /\ xresult = Unbound
    /\ sandbox_fs = {}
    /\ leases = 1
    /\ xerror = Unbound
    /\ xcalls = <<>>
    /\ solveArgs = <<task.description>>
    /\ statuses = <<FAILED>>
    /\ stored = <<>>
    /\ recordRuns = <<>>
    /\ mem_call = [op |-> "none"]
    /\ system_prompt = ActorSystemPrompt(SkillContext(<<>>))
    /\ history = <<Genesis>>
    /\ current_version_id = 0
    /\ ledger_file = NoFile
    /\ last_op = "none"
    /\ step_ret = Unbound
    /\ gateway_failed = FALSE
    /\ loaded_from = Unbound

FeedbackNext ==
    \/ Judge
    \/ LoopHead

FeedbackSpec == FeedbackInit /\ [][FeedbackNext]_vars

(***************************************************************************)
(* Patcher.apply_to_file                                                   *)
(***************************************************************************)
patcherFrame == <<pc, task, attempts, success, previous_feedback, solution,
                  adversarial_tests, source_files, clean_test_files, result,
                  new_skill, verdict, raised, collection, history, xpc,
                  sandbox, widx, xresult, sandbox_fs, leases, xerror, xcalls,
                  origTask, solveArgs, statuses, stored, recordRuns,
                  runOutcome, ledgerVars, mem_call, system_prompt, loopVars>>

FileContents == {<<"v1">>, <<"v2">>, <<"v3">>}

Files == {Missing} \cup {FileWith(c) : c \in FileContents}

\* safe_write_file returns, raises before open(p, "w") truncated the file,
\* or raises after it
WriteOutcomes == {"written", "open_failed", "write_failed"}

\* the file safe_write_file leaves
SafeWriteFile(file, content, outcome) ==
    CASE outcome = "written" -> FileWith(content)
      [] outcome = "open_failed" -> file
      [] outcome = "write_failed" -> FileWith(<<>>)

\* a restore that removes the backup and leaves the target as it is
RestoreLeavesOriginal(original, backup) ==
    [original |-> original, backup |-> Missing]

\* shutil.move(backup_path, original_path)
Restore(original, backup) ==
    [original |-> backup, backup |-> Missing]

\* apply_to_file(original_path, patch) is entered
PatcherInit ==
    /\ CycleInit
    /\ history = <<Genesis>>
    /\ current_version_id = 0
    /\ ledger_file = NoFile
    /\ last_op = "none"
    /\ step_ret = Unbound
    /\ gateway_failed = FALSE
    /\ loaded_from = Unbound
    /\ ppc = "backup"
    /\ original_file \in Files
    /\ backup_file \in Files
    /\ patch_diff \in FileContents
    /\ patch_before = original_file
    /\ patch_log = <<>>
    /\ patch_ret = "none"

\* 1. the backup: shutil.copy2 when the target exists
Backup ==
    /\ ppc = "backup"
    /\ IF original_file.exists
       THEN \/ /\ backup_file' = original_file
               /\ patch_log' = Append(patch_log, "copy2")
               /\ ppc' = "write"
            \/ /\ patch_log' = Append(patch_log, "copy2_raises")
               /\ ppc' = "except"
               /\ UNCHANGED backup_file
       ELSE /\ ppc' = "write"
            /\ UNCHANGED <<backup_file, patch_log>>
    /\ UNCHANGED <<original_file, patch_diff, patch_before, patch_ret>>
    /\ UNCHANGED patcherFrame

\* 2. safe_write_file(original_path, patch.diff)
Write ==
    /\ ppc = "write"
    /\ \E outcome \in WriteOutcomes :
        /\ original_file' = SafeWriteFile(original_file, patch_diff, outcome)
        /\ patch_log' = Append(patch_log, IF outcome = "written"
                                          THEN "write" ELSE "write_raises")
        /\ ppc' = IF outcome = "written" THEN "cleanup" ELSE "except"
    /\ UNCHANGED <<backup_file, patch_diff, patch_before, patch_ret>>
    /\ UNCHANGED patcherFrame

\* the backup is removed and apply_to_file returns True
Cleanup ==
    /\ ppc = "cleanup"
    /\ IF backup_file.exists
       THEN \/ /\ backup_file' = Missing
               /\ patch_log' = Append(patch_log, "unlink")
               /\ patch_ret' = "True"
               /\ ppc' = "done"
            \/ /\ patch_log' = Append(patch_log, "unlink_raises")
               /\ ppc' = "except"
               /\ UNCHANGED <<backup_file, patch_ret>>
       ELSE /\ patch_ret' = "True"
            /\ ppc' = "done"
            /\ UNCHANGED <<backup_file, patch_log>>
    /\ UNCHANGED <<original_file, patch_diff, patch_before>>
    /\ UNCHANGED patcherFrame

\* 3. the except clause: the backup, if there is one, is moved back and
\* apply_to_file returns False; an exception of the move leaves the call
Except ==
    /\ ppc = "except"
    /\ IF backup_file.exists
       THEN \/ /\ original_file' = Restore(original_file, backup_file).original
               /\ backup_file' = Restore(original_file, backup_file).backup
               /\ patch_log' = Append(patch_log, "move")
               /\ patch_ret' = "False"
            \/ /\ patch_log' = Append(patch_log, "move_raises")
               /\ patch_ret' = "raised"
               /\ UNCHANGED <<original_file, backup_file>>
       ELSE /\ patch_ret' = "False"
            /\ UNCHANGED <<original_file, backup_file, patch_log>>
    /\ ppc' = "done"
    /\ UNCHANGED <<patch_diff, patch_before>>
    /\ UNCHANGED patcherFrame

PatcherNext ==
    \/ Backup
    \/ Write
    \/ Cleanup
    \/ Except

PatcherSpec == PatcherInit /\ [][PatcherNext]_vars

(***************************************************************************)
(* Properties                                                              *)
(***************************************************************************)
CycleEnded == pc \in {"done", "raised"}

SomePassed == \E i \in 1..Len(statuses) : statuses[i] = PASSED

\* the most files one execute call writes
MaxFiles == MaxPatches + 1

\* steps an attempt has left at its current position, at most
PosRank ==
    CASE pc = "start" -> 3
      [] pc = "final" -> 1
      [] pc = "loop" -> 2
      [] pc = "store" -> 3
      [] pc = "judge" -> 4
      [] pc = "verify" /\ xpc = "finally" /\ sandbox # "leased" -> 5
      [] pc = "verify" /\ xpc = "finally" /\ sandbox = "leased" -> 6
      [] pc = "verify" /\ xpc = "run" -> 7
      [] pc = "verify" /\ xpc = "install" -> 8
      [] pc = "verify" /\ xpc = "write" -> 9 + Len(AllFiles) - widx
      [] pc = "verify" /\ xpc = "create" -> 9 + MaxFiles
      [] pc = "attack" -> 10 + MaxFiles
      [] pc = "solve" -> 11 + MaxFiles
      [] OTHER -> 0

\* a bound on the steps run_cycle has left
Rank ==
    IF CycleEnded THEN 0
    ELSE (max_retries - attempts) * (12 + MaxFiles) + PosRank

\* C1: in any run_cycle call at most max_retries (3) attempts are started
\* and actor.solve is invoked at most 3 times, and the attempt loop
\* terminates: every step of the cycle (the return or the raise of an awaited
\* call) strictly lowers a natural-number bound on the steps left.
C1_AttemptsBoundedAndLoopTerminates ==
    [][/\ attempts' <= max_retries
       /\ Len(solveArgs') <= max_retries
       /\ Len(solveArgs') = attempts'
       /\ Rank' >= 0
       /\ Rank' < Rank]_vars

C1_Witness ==
    /\ pc = "done"
    /\ attempts = max_retries
    /\ Len(solveArgs) = max_retries
    /\ verdict = "FAILED"

\* C2: a cycle has verdict SUCCESS iff some attempt's status was PASSED, and
\* no attempt follows the first PASSED; it has verdict FAILED iff max_retries
\* attempts were made and none returned PASSED.
C2_VerdictIffPassed ==
    CycleEnded =>
        /\ (verdict = "SUCCESS") <=> SomePassed
        /\ (verdict = "FAILED") <=> (attempts = max_retries /\ ~SomePassed)
        /\ \A i \in 1..Len(statuses) :
            statuses[i] = PASSED => i = Len(statuses)

\* C3: the description passed to actor.solve on the first attempt is the
\* original description, and on every later attempt it contains the literal
\* PREVIOUS FAILURE FEEDBACK: marker.
C3_RetryCarriesFeedbackMarker ==
    \A i \in 1..Len(solveArgs) :
        IF i = 1
        THEN solveArgs[i] = origTask.description
        ELSE Contains(solveArgs[i], FEEDBACK_MARKER)

C3_Witness ==
    /\ Len(solveArgs) = max_retries
    /\ ~Contains(origTask.description, FEEDBACK_MARKER)
    /\ previous_feedback = PreviousFeedback(TestResult(FAILED, <<>>, <<>>, 1))

\* C4: a cycle that ends SUCCESS has called memory.store_skill exactly once,
\* with a skill named "skill_" followed by the first 8 characters of the
\* task id, and the store holds that skill.
C4_SuccessStoresOneSkill ==
    verdict = "SUCCESS" =>
        LET id == origTask.id
            n == IF Len(id) < IdPrefixLen THEN Len(id) ELSE IdPrefixLen
            name == <<"skill_">> \o [i \in 1..n |-> id[i]]
        IN  /\ Len(stored) = 1
            /\ stored[1].name = name
            /\ DOMAIN collection = {name}

C4_Witness ==
    /\ verdict = "SUCCESS"
    /\ Len(origTask.id) > IdPrefixLen
    /\ attempts = 2

\* C5: memory.store_skill is never called in a cycle in which no attempt
\* returned PASSED, and nothing is upserted in such a cycle.
C5_NoSkillWithoutPassed ==
    ~SomePassed => (stored = <<>> /\ DOMAIN collection = {})

C5_Witness ==
    /\ pc = "done"
    /\ verdict = "FAILED"
    /\ \E i \in 1..Len(statuses) : statuses[i] = FAILED
    /\ \E i \in 1..Len(statuses) : statuses[i] = ERROR
    /\ stored = <<>>

\* C6: every completed cycle has called PromptOptimizer.record_run exactly
\* once, with success = TRUE iff the verdict is SUCCESS, so the ledger head
\* has one more run (and one more success iff SUCCESS) than before the cycle.
C6_RecordRunOncePerCycle ==
    pc = "done" =>
        /\ Len(recordRuns) = 1
        /\ recordRuns[1] = (verdict = "SUCCESS")
        /\ history[Len(history)].runs = Genesis.runs + 1
        /\ history[Len(history)].successes =
              Genesis.successes + (IF verdict = "SUCCESS" THEN 1 ELSE 0)

\* C7: a model error raised by the Actor or the Adversary during an attempt
\* never aborts run_cycle: the cycle goes on to Retry or ends FAILED.
C7_ModelErrorFailsOnlyTheAttempt ==
    ~(pc = "raised" /\ raised.at \in {"solve", "attack"})

\* C8: an attempt whose Solution has no patches is a failed attempt whatever
\* the Arbiter returns: it never sets success and never reaches the
\* consolidation code.
C8_EmptyPatchesNeverConsolidate ==
    (solution # Unbound /\ solution.patches = <<>>) =>
        (~success /\ raised.at # "consolidate")

\* C9: every TestResult execute builds and returns has status PASSED iff
\* its exit_code is 0, on the normal-return branch and on the exception
\* branches alike.
C9_PassedIffExitZero ==
    /\ xresult # Unbound => (xresult.status = PASSED <=> xresult.exit_code = 0)
    /\ result # Unbound => (result.status = PASSED <=> result.exit_code = 0)

C9_Witness ==
    /\ pc = "judge"
    /\ runOutcome # Unbound
    /\ runOutcome.type = "SandboxException"
    /\ result.status = FAILED
    /\ result.exit_code = 1

\* C10: when the test command raises a timeout error, execute returns
\* status ERROR, exit_code 124 and stderr "Execution Timed Out".
C10_TestTimeoutIsError ==
    (pc = "judge" /\ runOutcome # Unbound
        /\ runOutcome.type \in {"TimeoutError", "TimeoutException"}) =>
        /\ result.status = ERROR
        /\ result.exit_code = 124
        /\ result.stderr = <<"Execution Timed Out">>

\* the positions in xcalls of the calls of one vendor operation
Calls(op) == {i \in 1..Len(xcalls) : xcalls[i] = op}

\* C11: whenever execute is left, by return or by a propagating
\* cancellation, a sandbox it leased has had kill invoked; the kill and its
\* failure leave the result to return and the exception in flight as they
\* were, and after a failed kill execute still returns its result.
C11_LeasedSandboxIsKilled ==
    [][/\ (pc = "verify" /\ pc' # "verify") =>
            /\ sandbox # "leased"
            /\ sandbox # "None" => Calls("kill") # {}
            /\ xerror # Unbound /\ xerror.e.type = "CancelledError"
                    => pc' = "raised"
            /\ ~(xerror # Unbound /\ xerror.e.type = "CancelledError")
                    => (pc' = "judge" /\ result' = xresult)
       /\ (xpc = "finally" /\ xpc' = "finally") =>
            (xresult' = xresult /\ xerror' = xerror)
      ]_vars

C11_Witness ==
    /\ pc = "verify" /\ xpc = "finally"
    /\ xerror # Unbound /\ xerror.e.type = "CancelledError"
    /\ sandbox = "kill_failed"
    /\ Calls("kill") # {}

\* C12: an exception raised by a vendor call of execute that is neither a
\* timeout nor the non-zero exit of the test command gives a result with
\* status ERROR and exit_code 1, and no exception leaves execute.
C12_VendorErrorIsError ==
    /\ (pc = "verify" /\ xpc = "finally" /\ xerror # Unbound
            /\ xerror.e.type \notin
                    {"TimeoutError", "TimeoutException", "CancelledError"}
            /\ ~(xerror.at = "run" /\ xerror.e.type = "CommandExitException"))
         => (xresult # Unbound /\ xresult.status = ERROR
                /\ xresult.exit_code = 1)
    /\ (pc = "raised" /\ raised.at = "verify")
         => raised.type = "CancelledError"

\* C13: the installation command runs only when requirements.txt is in
\* files, after every file has been written and before the test command;
\* with requirements.txt in files the test command never runs without it;
\* when the installation raises, the result is ERROR and the test command
\* is not run.
C13_InstallBetweenWritesAndTests ==
    pc = "verify" =>
        /\ \A i \in Calls("install") :
            /\ HasRequirements
            /\ Cardinality(Calls("write")) = Len(source_files)
                                                + Len(clean_test_files)
            /\ \A j \in Calls("write") : j < i
            /\ \A j \in Calls("run") : i < j
        /\ ~HasRequirements => Calls("install") = {}
        /\ (HasRequirements /\ Calls("run") # {}) => Calls("install") # {}
        /\ (xerror # Unbound /\ xerror.at = "install"
                /\ xerror.e.type # "CancelledError")
             => (xresult.status = ERROR /\ Calls("run") = {})

C13_Witness ==
    /\ pc = "verify" /\ xpc = "finally"
    /\ xerror # Unbound /\ xerror.at = "install"
    /\ xerror.e.type = "CommandExitException"
    /\ xresult.status = ERROR
    /\ Cardinality(Calls("write")) = 2

\* C14: when the test command exits with code 5 (no tests collected), the
\* status execute returns is SKIPPED or ERROR, never FAILED or PASSED.
C14_NoTestsIsSkippedOrError ==
    (pc = "judge" /\ runOutcome # Unbound
        /\ runOutcome.type = "CommandExitException"
        /\ runOutcome.exit_code = 5)
      => result.status \in {SKIPPED, ERROR}

\* C15: execute is entered holding no sandbox; the sandbox it gets is a new
\* lease with no files; while it holds the sandbox, the files in it are
\* exactly those this call has written; it leaves holding none.
C15_FreshSandboxPerCall ==
    [][/\ (pc # "verify" /\ pc' = "verify") => sandbox' = "None"
       /\ (sandbox = "None" /\ sandbox' = "leased") =>
            (leases' = leases + 1 /\ sandbox_fs' = {} /\ widx' = 1)
       /\ (pc' = "verify" /\ sandbox' = "leased") =>
            sandbox_fs' = {(source_files \o clean_test_files)[i].file_path :
                                i \in 1..(widx' - 1)}
       /\ (pc = "verify" /\ pc' # "verify") =>
            (sandbox' = "None" /\ sandbox_fs' = {})
      ]_vars

C15_Witness ==
    /\ pc = "verify" /\ sandbox = "leased"
    /\ attempts = 2 /\ leases = 2
    /\ statuses = <<FAILED>>
    /\ sandbox_fs = {}
    /\ Len(source_files) > 0

\* C16: a step() call appends a version exactly when the head it finds has
\* at least 5 runs and a success rate below 0.6; otherwise it leaves the
\* ledger as it was; it returns true exactly when it appended.
C16_StepAppendsIffThresholds ==
    [][last_op' = "step" =>
        LET appended == Len(history') = Len(history) + 1
            due == /\ history # <<>>
                   /\ history[Len(history)].runs >= 5
                   /\ 10 * history[Len(history)].avg_success_rate.num
                        < 6 * history[Len(history)].avg_success_rate.den
        IN  /\ appended <=> due
            /\ ~appended => history' = history
            /\ step_ret' = appended
      ]_vars

C16_Witness ==
    /\ last_op = "step" /\ step_ret = TRUE
    /\ Len(history) = 2
    /\ history[1].runs = 5 /\ history[1].successes = 2

\* C17: the version a step() call appends has the previous head's
\* version_id plus one, the previous head's version_id as parent_version,
\* no runs, no successes, rate 0 and a non-empty change_summary, and is the
\* new head.
C17_AppendedVersionShape ==
    [][(last_op' = "step" /\ Len(history') = Len(history) + 1) =>
        LET new == history'[Len(history')]
            old == history[Len(history)]
        IN  /\ new.version_id = old.version_id + 1
            /\ new.parent_version = old.version_id
            /\ new.runs = 0
            /\ new.successes = 0
            /\ new.avg_success_rate = ZeroRate
            /\ new.change_summary # <<>>
      ]_vars

\* C18: a step() call whose Model Gateway call fails leaves the ledger as
\* it was and returns false.
C18_GatewayFailureLeavesLedger ==
    [][(last_op' = "step" /\ gateway_failed') =>
        (history' = history /\ step_ret' = FALSE)
      ]_vars

\* C19: across record_run and step calls the ledger only grows at its end;
\* no call changes a version other than the head; a call changes of the
\* head at most runs, successes and rate, and step() changes nothing of it.
C19_LedgerAppendOnly ==
    [][last_op' \in {"record_run", "step"} =>
       /\ Len(history') >= Len(history)
       /\ \A i \in 1..(Len(history) - 1) : history'[i] = history[i]
       /\ history # <<>> =>
            LET new == history'[Len(history)]
                old == history[Len(history)]
            IN  /\ new.version_id = old.version_id
                /\ new.content = old.content
                /\ new.parent_version = old.parent_version
                /\ new.change_summary = old.change_summary
                /\ last_op' = "step" => new = old
       /\ (last_op' = "record_run" /\ history # <<>>) =>
            Len(history') = Len(history)
      ]_vars

C19_Witness ==
    /\ last_op = "record_run"
    /\ Len(history) = 2
    /\ history[2].runs = 2 /\ history[2].successes = 1
    /\ history[1].runs = 5

\* C20: every version of the ledger has rate successes / runs when it has
\* runs, and rate 0 when it has none.
C20_RateIsSuccessesOverRuns ==
    \A i \in 1..Len(history) :
        LET v == history[i]
        IN  /\ v.avg_success_rate.den > 0
            /\ IF v.runs > 0
               THEN v.avg_success_rate.num * v.runs
                        = v.successes * v.avg_success_rate.den
               ELSE v.avg_success_rate.num = 0

C20_Witness ==
    /\ Len(history) = 2
    /\ history[1].runs = 6 /\ history[1].successes = 3
    /\ history[2].runs = 3 /\ history[2].successes = 2

\* the ledger files the claim calls empty or corrupt
EmptyOrCorrupt(file) ==
    \/ file.kind \in {"truncated", "invalid_records", "empty_object"}
    \/ file.kind = "json" /\ file.versions = <<>>

\* C21: after a load that found the ledger file empty (zero bytes, an empty
\* JSON array) or corrupt, the ledger holds exactly the genesis version,
\* with version_id 0 and the default content, and current_prompt returns
\* that content.
C21_EmptyOrCorruptLoadsGenesis ==
    (last_op = "load" /\ EmptyOrCorrupt(loaded_from)) =>
        /\ Len(history) = 1
        /\ history[1].version_id = 0
        /\ history[1].content = DefaultPrompt
        /\ current_prompt(history) = DefaultPrompt

\* C22: a save leaves in the ledger file either what was there before or
\* the complete dump of the new ledger.
C22_SaveIsAtomic ==
    [][last_op' \in {"record_run", "step"} =>
        \/ ledger_file' = ledger_file
        \/ ledger_file' = Dumped(history')
      ]_vars

\* C23: the list a retrieve_relevant_skills(q, K) call returns has at most
\* K skills.
C23_RetrieveAtMostLimit ==
    (mem_call.op = "retrieve" /\ ~mem_call.raised) =>
        Len(mem_call.result) <= mem_call.limit

C23_Witness ==
    /\ mem_call.op = "retrieve" /\ ~mem_call.raised
    /\ mem_call.limit = 1
    /\ Len(mem_call.result) = 1
    /\ Cardinality(DOMAIN collection) = 2

\* C24: a retrieve_relevant_skills(q, K) call asks the vector store for
\* max(K, 10) candidates and, that being more than K, re-ranks them.
C24_RetrieveIsTwoStage ==
    (mem_call.op = "retrieve" /\ ~mem_call.raised) =>
        /\ mem_call.n_results = IF mem_call.limit > 10
                                THEN mem_call.limit ELSE 10
        /\ mem_call.n_results > mem_call.limit => mem_call.reranked

\* C25: a rerank call with at most K candidates returns the candidates as
\* they came and makes no model call.
C25_RerankShortListUnchanged ==
    (mem_call.op = "rerank"
        /\ Len(mem_call.candidates) <= mem_call.top_k) =>
            /\ mem_call.result = mem_call.candidates
            /\ ~mem_call.model_called

C25_Witness ==
    /\ mem_call.op = "rerank"
    /\ Len(mem_call.candidates) = 2
    /\ mem_call.top_k = 2
    /\ mem_call.result = mem_call.candidates

\* the selected names that are names of candidates, in the model's order
KnownSelected(call) ==
    LET IsCandidate(n) ==
            \E i \in 1..Len(call.candidates) : call.candidates[i].name = n
    IN  SelectSeq(call.outcome.selected_skill_names, IsCandidate)

\* the model was asked and failed, or selected no candidate
RerankFellBack(call) ==
    /\ call.op = "rerank" /\ call.model_called
    /\ call.outcome.raised \/ KnownSelected(call) = <<>>

\* C26: when the model selects at least one candidate, rerank returns the
\* selected candidates in the order the model listed them, unknown names
\* dropped, at most K of them.
C26_RerankKeepsModelOrder ==
    (mem_call.op = "rerank" /\ mem_call.model_called
        /\ ~mem_call.outcome.raised /\ KnownSelected(mem_call) # <<>>) =>
            LET known == KnownSelected(mem_call)
                kept == SubSeq(known, 1,
                               IF Len(known) < mem_call.top_k
                               THEN Len(known) ELSE mem_call.top_k)
            IN  [i \in 1..Len(mem_call.result) |-> mem_call.result[i].name]
                    = kept

\* C27: when the model call fails or selects no candidate, rerank returns
\* the first K candidates in the order they came.
C27_RerankFallsBackToFirstK ==
    RerankFellBack(mem_call) =>
        mem_call.result = SubSeq(mem_call.candidates, 1, mem_call.top_k)

C27_Witness ==
    /\ RerankFellBack(mem_call)
    /\ ~mem_call.outcome.raised
    /\ mem_call.outcome.selected_skill_names = <<"skill_unknown">>
    /\ mem_call.top_k = 2
    /\ Len(mem_call.candidates) = 3
    /\ Len(mem_call.result) = 2

\* C28: the store holds at most one entry per skill name; a store_skill
\* call leaves under the skill's name an entry with the code, docstring and
\* tags of that skill and leaves every other entry as it was; storing the
\* skill stored last once more changes nothing.
C28_StoreSkillIsUpsertByName ==
    [][/\ \A i, j \in DOMAIN collection' :
            collection'[i].metadata.name = collection'[j].metadata.name
                => i = j
       /\ (mem_call'.op = "store_skill" /\ ~mem_call'.raised) =>
            LET skill == mem_call'.skill
            IN  /\ DOMAIN collection' = DOMAIN collection \cup {skill.name}
                /\ collection'[skill.name].document = skill.code
                /\ collection'[skill.name].metadata.docstring
                        = skill.docstring
                /\ collection'[skill.name].metadata.tags[2] = skill.tags
                /\ \A n \in DOMAIN collection \ {skill.name} :
                        collection'[n] = collection[n]
                /\ (skill.name \in DOMAIN collection
                        /\ SkillOf(collection[skill.name]) = skill)
                     => collection' = collection
      ]_vars

C28_Witness ==
    /\ mem_call.op = "store_skill" /\ ~mem_call.raised
    /\ Cardinality(DOMAIN collection) = 2
    /\ collection[mem_call.skill.name].document = <<"def f(): return 2">>
    /\ \E n \in DOMAIN collection :
            collection[n].document = <<"def f(): return 1">>

\* C29: a stored skill has the description of the task as docstring, the
\* content of the first patch of the passing Solution as code (as the model
\* wrote it or with its code fence removed) and the tags verified and
\* auto-generated.
C29_StoredSkillContent ==
    \A i \in 1..Len(stored) :
        /\ stored[i].docstring \in {task.description, origTask.description}
        /\ stored[i].code \in {solution.patches[1].diff,
                               clean_code_block(solution.patches[1].diff)}
        /\ stored[i].tags = <<"verified", "auto-generated">>

\* the tokens of a, in order and adjacent, are in the prompt
InPrompt(a, prompt) ==
    \E k \in 0..(Len(prompt) - Len(a)) :
        \A j \in 1..Len(a) : prompt[k + j] = a[j]

\* C30: the system prompt an actor.solve call builds holds the content of
\* the version that is the head of the ledger at that time.
C30_SolveUsesLedgerHead ==
    [][last_op' = "solve" =>
        InPrompt(current_prompt(history'), system_prompt')
      ]_vars

\* C34: a failure of memory.store_skill does not leave run_cycle: no cycle
\* ends by an exception raised at the store of the skill.
C34_StoreFailureDoesNotPropagate ==
    ~(pc = "raised" /\ raised.at = "store")

\* C35: in an attempt the Adversary is called only when actor.solve returned
\* a Solution, arbiter.execute only when the Adversary returned its tests,
\* the verdict is read only when execute returned, and actor.solve is
\* called only from the loop head, after the first attempt with the result
\* of the attempt before.
C35_SolveAttackVerifyInOrder ==
    [][/\ (pc # "solve" /\ pc' = "solve") =>
            /\ pc = "loop"
            /\ attempts' = attempts + 1
            /\ attempts >= 1 => result # Unbound
       /\ (pc # "attack" /\ pc' = "attack") =>
            (pc = "solve" /\ solution' # Unbound)
       /\ (pc # "verify" /\ pc' = "verify") =>
            (pc = "attack" /\ adversarial_tests' \in TestFileLists
                /\ solution # Unbound)
       /\ (pc # "judge" /\ pc' = "judge") =>
            (pc = "verify" /\ result' # Unbound)
       /\ (pc = "solve" /\ pc' # "solve") => pc' \in {"attack", "raised"}
       /\ (pc = "attack" /\ pc' # "attack") => pc' \in {"verify", "raised"}
       /\ (pc = "verify" /\ pc' # "verify") => pc' \in {"judge", "raised"}
      ]_vars

C35_Witness ==
    /\ pc = "verify"
    /\ attempts = 2
    /\ Len(statuses) = 1
    /\ solution # Unbound /\ adversarial_tests \in TestFileLists

\* C36: the description passed to actor.solve at attempt n is the one of
\* attempt n-1 (the original one for n = 1) followed, for n >= 2, by the
\* feedback envelope of the result of attempt n-1; the task passed has the
\* id, the requirements and the initial files of the original task.
C36_FeedbackAccumulates ==
    [][attempts' = attempts + 1 =>
        /\ Len(solveArgs') = attempts'
        /\ solveArgs'[attempts'] = task'.description
        /\ task'.description =
                IF attempts = 0
                THEN origTask.description
                ELSE solveArgs[attempts]
                        \o <<LF, LF, FEEDBACK_MARKER, LF,
                              "Test Failed. Output:", LF, "STDOUT:", LF>>
                        \o result.stdout
                        \o <<LF, LF, "STDERR:", LF>>
                        \o result.stderr
        /\ task'.id = origTask.id
        /\ task'.requirements = origTask.requirements
        /\ task'.initial_files = origTask.initial_files
      ]_vars

C36_Witness ==
    /\ pc = "solve"
    /\ attempts = max_retries
    /\ Len(task.description) > Len(solveArgs[2])
    /\ Len(solveArgs[2]) > Len(origTask.description)
    /\ statuses = <<FAILED, ERROR>>

\* the last cycle of the loop ended by an exception of class Exception
LastCycleFailed(log) ==
    log # <<>> /\ log[Len(log)].outcome \in CycleErrors

\* C32: in loop mode a cycle that ends by an error does not end the loop:
\* the error is logged and a sleep of 10 s starts (5 s when the cycle
\* returned), after a sleep the loop is at its top again and from there it
\* only starts the next cycle; at most one cycle is in progress.
C32_LoopSurvivesCycleErrors ==
    [][/\ in_flight' \in {0, 1}
       /\ lpc' = "cycle" <=> in_flight' = 1
       /\ (lpc = "cycle" /\ lpc' # "cycle" /\ LastCycleFailed(loop_log')) =>
            /\ lpc' = "sleep"
            /\ sleeping' = 10
            /\ loop_log'[Len(loop_log')].logged
       /\ (lpc = "cycle" /\ lpc' # "cycle"
                /\ loop_log'[Len(loop_log')].outcome = "returned") =>
            (lpc' = "sleep" /\ sleeping' = 5)
       /\ (lpc = "sleep" /\ lpc' \notin {"sleep", "raised", "exited"}) =>
            lpc' = "head"
       /\ (lpc = "head" /\ lpc' # "head") => lpc' = "cycle"
      ]_vars

C32_Witness ==
    /\ lpc = "cycle"
    /\ Len(loop_log) = 2
    /\ loop_log[1].outcome = "LLMError"
    /\ loop_log[2].outcome = "IndexError"

\* C33: once a cycle ended by the budget-exceeded error the loop has
\* exited: no cycle is started, no sleep is in progress.
C33_BudgetErrorExitsLoop ==
    (\E i \in 1..Len(loop_log) : loop_log[i].outcome = "RuntimeError") =>
        lpc \in {"exited", "raised"}

\* C37: in a ledger with a history, the version ids are 0, 1, 2, ... in
\* list order, every version but the first has the id before its own as
\* parent_version, current_version_id is the id of the head, and every
\* version has 0 <= successes <= runs.
C37_LedgerWellFormed ==
    history # <<>> =>
        /\ \A i \in 1..Len(history) :
                /\ history[i].version_id = i - 1
                /\ i > 1 => history[i].parent_version
                                = history[i].version_id - 1
                /\ 0 <= history[i].successes
                /\ history[i].successes <= history[i].runs
        /\ current_version_id = Current(history).version_id

C37_Witness ==
    /\ Len(history) = 2
    /\ history[2].runs = 2 /\ history[2].successes = 1
    /\ history[1].runs = evolution_threshold_runs

FeedbackCap == 16 * 1024

\* C31: the feedback text that the next Solve gets appended to its task
\* description is at most 16 KiB long, whatever the output of the failed
\* attempt.
C31_FeedbackIsBounded ==
    TextBytes(previous_feedback) <= FeedbackCap

\* the file system call named op was made by the apply_to_file call
Made(op) == \E i \in 1..Len(patch_log) : patch_log[i] = op

====
